---- MODULE Spec2Model ----
(***************************************************************************)
(* s3ql_backup_service.py as a state machine.                              *)
(*                                                                         *)
(* One process, one control thread.  pc is the source line the thread is   *)
(* about to execute ("L120" = line 120, "L120w" = blocked in the wait of   *)
(* the command spawned at line 120).  stack is the stack of open `with`    *)
(* and `try` blocks; leaving a block, normally or because an exception     *)
(* propagates (exc # "none"), runs its __exit__ / finally code.  The       *)
(* environment delivers termination signals at any bytecode boundary       *)
(* (action Deliver) and decides the exit status of each external command.  *)
(***************************************************************************)
EXTENDS Integers, Sequences, FiniteSets, TLC

VARIABLES
    pc,          \* source line the control thread is at
    stack,       \* open with/try blocks, innermost last
    cur,         \* the context manager whose __enter__/__exit__ is running
    exc,         \* the exception that is propagating ("none" if none)
    disp,        \* the process-wide signal disposition table
    args,        \* parsed command line (argparse namespace)
    fs,          \* names of the entries at the root of the s3ql file system
    mounted,     \* local variable `mounted` of do_backup
    tmpdir,      \* the temporary mount point: "none", "exists", "removed"
    cwd,         \* working directory: "orig" or "mountpoint"
    rval,        \* local variable `rval`: << >> while unbound, else <<status>>
    i,           \* iterations of the unmount loop started so far
    last_backup, \* local variable `last_backup`
    new_backup,  \* local variable `new_backup`
    log,         \* external effects so far: calls, returns, sleeps, rmdir
    exit,        \* "none" while running, then "0", "1" or "signal"
    ctx,         \* for each signal delivered so far, where it arrived
    nraised      \* exceptions raised by signal handlers so far

vars == <<pc, stack, cur, exc, disp, args, fs, mounted, tmpdir, cwd, rval, i,
          last_backup, new_backup, log, exit, ctx, nraised>>

\* everything but the record of delivered signals
progVars == <<pc, stack, cur, exc, disp, args, fs, mounted, tmpdir, cwd, rval,
              i, last_backup, new_backup, log, exit, nraised>>

-----------------------------------------------------------------------------
(* Bounds of the model *)

\* signals the environment delivers in one run
MaxSignals == 2

\* largest --maxtries value tried
MaxTries == 3

\* most values in a --cycles list (signal-free runs)
MaxCycles == 3

\* most entries at the mount root (signal-free runs)
MaxEntries == 3

-----------------------------------------------------------------------------
(* Signals and dispositions *)

\* line 81-82: the termination signals, in list order
term_signals == <<"SIGTERM", "SIGHUP", "SIGINT">>

Signals == {term_signals[k] : k \in DOMAIN term_signals}

\* dispositions at interpreter start: CPython installs default_int_handler
\* for SIGINT, the others have the default action (terminate the process)
StartDisp == [s \in Signals |-> IF s = "SIGINT" THEN "default_int_handler"
                                                ELSE "SIG_DFL"]

\* line 18-19: the bridge handler
on_signal_raise == "on_signal_raise"

\* variant: a guard that installs the raising handler
GuardHandlerRaising == "on_signal_raise"

\* lines 119, 127, 183: the handler the phase guards install
GuardHandler == "SIG_IGN"

\* line 109: the handler of the whole-run mask of --no-interruptions
NoIntHandler == "SIG_IGN"

-----------------------------------------------------------------------------
(* Block frames *)

Unset == [s \in Signals |-> "unset"]

\* a frame of the block stack; prev is SignalMask.prev_handlers, todo the
\* signals __exit__ has still to restore, saved the exception a finally block
\* re-raises at its end (for ChDir: orig_cwd)
Frame(kind, line, cont) ==
    [kind |-> kind, line |-> line, handler |-> "none", prev |-> Unset,
     todo |-> {}, body |-> "none", cont |-> cont, saved |-> "none"]

NoFrame == Frame("none", 0, "none")

Push(f) == Append(stack, f)

Top == stack[Len(stack)]

Pop == SubSeq(stack, 1, Len(stack) - 1)

\* the with-statements that guard a phase: fsck, mount, unmount
PhaseGuardLines == {119, 127, 183}

OnStack(lines) ==
    \E k \in DOMAIN stack : stack[k].kind = "mask" /\ stack[k].line \in lines

\* a phase guard is active: its __enter__ has returned, its __exit__ not begun
PhaseGuardActive == OnStack(PhaseGuardLines)

\* the whole-run mask of --no-interruptions is active
NoIntActive == OnStack({109})

\* where the control thread is when a signal arrives: inside a guarded
\* phase, else inside the whole-run mask, else in the open
Context ==
    IF PhaseGuardActive THEN "phase"
    ELSE IF NoIntActive THEN "whole" ELSE "open"

\* signals delivered so far
nsig == Len(ctx)

\* signals delivered so far in context c
Arrived(c) == Cardinality({k \in DOMAIN ctx : ctx[k] = c})

\* signals delivered so far while a phase guard was active
gsig == Arrived("phase")

-----------------------------------------------------------------------------
(* The log of external effects *)

Event(ev, cmd, line, rc) ==
    [ev |-> ev, cmd |-> cmd, line |-> line, rc |-> rc, argv |-> << >>]

Logged(ev, line) ==
    {k \in DOMAIN log : log[k].ev = ev /\ log[k].line = line}

Count(ev, line) == Cardinality(Logged(ev, line))

Called(line) == Count("call", line) > 0

\* the exit statuses the command spawned at `line` has returned, in order
RECURSIVE StatusesFrom(_, _)
StatusesFrom(k, line) ==
    IF k > Len(log) THEN << >>
    ELSE IF log[k].ev = "ret" /\ log[k].line = line
         THEN <<log[k].rc>> \o StatusesFrom(k + 1, line)
         ELSE StatusesFrom(k + 1, line)

Statuses(line) == StatusesFrom(1, line)

\* the commands invoked so far, in order
RECURSIVE CallsFrom(_)
CallsFrom(k) ==
    IF k > Len(log) THEN << >>
    ELSE IF log[k].ev = "call" THEN <<log[k].cmd>> \o CallsFrom(k + 1)
         ELSE CallsFrom(k + 1)

Calls == CallsFrom(1)

-----------------------------------------------------------------------------
(* Entry names and the discovery of the prior backup (lines 136-139) *)

\* the characters of the modelled names, in ASCII order
AsciiOrder ==
    <<"\n", "-", ".", "0", "1", "2", "3", "4", "5", "6", "7", "8", "9", ":",
      "_", "a", "b", "c", "d", "e", "h", "k", "l", "n", "o", "p", "q", "s",
      "t", "u", "x">>

Ord(c) == CHOOSE k \in DOMAIN AsciiOrder : AsciiOrder[k] = c

Digits == {"0", "1", "2", "3", "4", "5", "6", "7", "8", "9"}

\* str.__lt__: bytewise lexicographic order, a proper prefix is smaller
RECURSIVE StrLess(_, _)
StrLess(a, b) ==
    IF b = << >> THEN FALSE
    ELSE IF a = << >> THEN TRUE
    ELSE IF Head(a) # Head(b) THEN Ord(Head(a)) < Ord(Head(b))
    ELSE StrLess(Tail(a), Tail(b))

\* line 137: re.match(r'^[\d-]{10}_[\d:]{8}$', x); `$` also matches just
\* before a newline that ends the string
Matches(x) ==
    /\ \/ Len(x) = 19
       \/ Len(x) = 20 /\ x[20] = "\n"
    /\ \A k \in 1..10 : x[k] \in Digits \cup {"-"}
    /\ x[11] = "_"
    /\ \A k \in 12..19 : x[k] \in Digits \cup {":"}

\* sorted(...): ascending by StrLess
RECURSIVE sorted(_)
sorted(S) ==
    IF S = {} THEN << >>
    ELSE LET m == CHOOSE x \in S : \A y \in S \ {x} : StrLess(x, y)
         IN <<m>> \o sorted(S \ {m})

\* line 136-137: the matching entries of the mount point, sorted
Backups(entries) == sorted({x \in entries : Matches(x)})

\* Python's None
None == <<"None">>

\* line 138: backups[-1] if backups else None
LastBackup(entries) ==
    LET backups == Backups(entries)
    IN IF backups # << >> THEN backups[Len(backups)] ELSE None

\* line 142: os.path.join(mountpoint, last_backup) raises on None
\* (posixpath.join calls a string method of every component)
PathJoinRaises(b) == IF b = None THEN "AttributeError" ELSE "none"

\* a backup identifier of January 2024, midnight, on the given day
Stamp(d) ==
    <<"2", "0", "2", "4", "-", "0", "1", "-", "0", d, "_",
      "0", "0", ":", "0", "0", ":", "0", "0">>

DotS3ql == <<".", "s", "3", "q", "l">>

NotesTxt == <<"n", "o", "t", "e", "s", ".", "t", "x", "t">>

\* 2024-1-5_1:2:3: wrong digit counts
ShortStamp ==
    <<"2", "0", "2", "4", "-", "1", "-", "5", "_", "1", ":", "2", ":", "3">>

\* the contents of the mount root the runs are tried on
EntrySets ==
    { {},
      {DotS3ql, NotesTxt, ShortStamp},
      {DotS3ql, Stamp("1"), Stamp("3"), NotesTxt} }

\* line 139: the value datetime.now().strftime(...) gives
Clock == {Stamp("4")}

DotCache == <<".", "c", "a", "c", "h", "e">>

BackupOld == <<"b", "a", "c", "k", "u", "p", "-", "o", "l", "d">>

\* a name of the right lengths made of dashes and colons only
DashStamp ==
    <<"-", "-", "-", "-", "-", "-", "-", "-", "-", "-", "_",
      ":", ":", ":", ":", ":", ":", ":", ":">>

\* entry names a mount root may hold: any byte string without "/" or NUL
Names ==
    {DotS3ql, DotCache, NotesTxt, BackupOld, ShortStamp, DashStamp,
     Stamp("1"), Stamp("3"), Stamp("3") \o <<"\n">>}

\* the mount roots of at most MaxEntries of these names
NameSets == {S \in SUBSET Names : Cardinality(S) <= MaxEntries}

-----------------------------------------------------------------------------
(* The --cycles option (lines 77-78, 91-92, 174) *)

\* str.split(','): the pieces between the commas
RECURSIVE Split(_)
Split(str) ==
    IF \A k \in DOMAIN str : str[k] # ","
    THEN <<str>>
    ELSE LET c == CHOOSE k \in DOMAIN str :
                     str[k] = "," /\ \A j \in 1..(k - 1) : str[j] # ","
         IN <<SubSeq(str, 1, c - 1)>> \o Split(SubSeq(str, c + 1, Len(str)))

DigitValue(d) == Ord(d) - Ord("0")

\* int(v) of a string of decimal digits
RECURSIVE IntOf(_)
IntOf(v) ==
    IF Len(v) = 1 THEN DigitValue(v[1])
    ELSE 10 * IntOf(SubSeq(v, 1, Len(v) - 1)) + DigitValue(v[Len(v)])

DigitChar(n) == AsciiOrder[Ord("0") + n]

\* str(n) of a natural number
RECURSIVE StrOf(_)
StrOf(n) ==
    IF n < 10 THEN <<DigitChar(n)>>
    ELSE StrOf(n \div 10) \o <<DigitChar(n % 10)>>

\* sorted(...) of a set of integers
RECURSIVE SortedInts(_)
SortedInts(S) ==
    IF S = {} THEN << >>
    ELSE LET m == CHOOSE x \in S : \A y \in S : x <= y
         IN <<m>> \o SortedInts(S \ {m})

\* variant: the values as typed, neither deduplicated nor sorted
cycle_list_type_as_typed(val) ==
    [k \in DOMAIN Split(val) |-> IntOf(Split(val)[k])]

\* lines 77-78: sorted(set(int(v) for v in val.split(',')))
cycle_list_type(val) ==
    SortedInts({IntOf(Split(val)[k]) : k \in DOMAIN Split(val)})

\* line 92: the default of --cycles
DefaultCycles == <<1, 7, 14, 31, 90, 180, 360>>

\* the option is not on the command line
NoOption == <<"absent">>

\* the numbers typed in a --cycles value
Tokens == {<<"1">>, <<"7">>, <<"3", "1">>, <<"0", "7">>}

\* ','.join(l)
RECURSIVE Join(_)
Join(l) ==
    IF Len(l) = 1 THEN l[1] ELSE l[1] \o <<",">> \o Join(Tail(l))

\* the --cycles values of at most MaxCycles numbers
CycleStrings ==
    {Join(l) : l \in UNION {[1..k -> Tokens] : k \in 1..MaxCycles}}

\* lines 173-174: the arguments of the command spawned at `line`; only the
\* expiry tool's are spelled out
Argv(line, cycles) ==
    IF line = 176
    THEN <<<<"--use-s3qlrm">>>> \o [k \in DOMAIN cycles |-> StrOf(cycles[k])]
    ELSE << >>

-----------------------------------------------------------------------------
(* Command line and exit statuses *)

\* lines 95-102: the options that decide the control flow
Args ==
    [fsck : BOOLEAN, no_interruptions : BOOLEAN, maxtries : -1..MaxTries,
     c : {NoOption}, cycles : {<< >>}]

\* the command lines of the signal-free runs
QuietArgs ==
    [fsck : BOOLEAN, no_interruptions : BOOLEAN, maxtries : {1},
     c : {NoOption} \cup CycleStrings, cycles : {<< >>}]

\* line 187: umount.s3ql's "mount point in use" status
Busy == 4

\* exit statuses of the must-succeed commands
ExitStatuses == {0, 1}

\* exit statuses of umount.s3ql
UmountStatuses == {0, 1, Busy}

\* variant: the status is not looked at (subprocess.call)
check_call_ignoring(rc) == "none"

\* subprocess.check_call: a non-zero status raises CalledProcessError
check_call(rc) == IF rc # 0 THEN "CalledProcessError" ELSE "none"

-----------------------------------------------------------------------------
(* Control flow *)

Init ==
    /\ pc = "L201"
    /\ stack = << >>
    /\ cur = NoFrame
    /\ exc = "none"
    /\ disp = StartDisp
    /\ args \in Args
    /\ fs \in EntrySets
    /\ mounted = FALSE
    /\ tmpdir = "none"
    /\ cwd = "orig"
    /\ rval = << >>
    /\ i = 0
    /\ last_backup = None
    /\ new_backup = None
    /\ log = << >>
    /\ exit = "none"
    /\ ctx = << >>
    /\ nraised = 0

counters == <<ctx, nraised>>

locals == <<mounted, rval, i, last_backup, new_backup>>

world == <<disp, args, fs, tmpdir, cwd, log, exit>>

\* continue at line l
Goto(l) == pc' = l /\ UNCHANGED <<stack, cur, exc>>

\* raise e at the current line: the innermost open block is left next; a
\* context manager whose __enter__ or __exit__ was running is abandoned
Raise(e) == pc' = "leave" /\ exc' = e /\ cur' = NoFrame /\ UNCHANGED stack

\* `with SignalMask(handler, term_signals):` at `line`, whose body starts at
\* `body` and which is followed by `cont`
BeginMask(line, handler, body, cont) ==
    /\ cur' = [Frame("mask", line, cont) EXCEPT !.handler = handler,
                                                 !.body = body]
    /\ pc' = "L41"
    /\ UNCHANGED <<stack, exc>>

\* where control goes once the __exit__ of frame f has returned
After(f) == IF exc = "none" THEN f.cont ELSE "leave"

\* lines 40-42: SignalMask.__enter__, one signal.signal call per step, in
\* list order; when all are installed the body of the with-statement starts
SignalMask_enter ==
    /\ pc = "L41"
    /\ LET todo == {k \in DOMAIN term_signals :
                        cur.prev[term_signals[k]] = "unset"}
       IN IF todo # {}
          THEN LET s == term_signals[CHOOSE k \in todo :
                                         \A j \in todo : k <= j]
               IN /\ disp' = [disp EXCEPT ![s] = cur.handler]
                  /\ cur' = [cur EXCEPT !.prev[s] = disp[s]]
                  /\ UNCHANGED <<pc, stack>>
          ELSE /\ stack' = Push(cur)
               /\ cur' = NoFrame
               /\ pc' = cur.body
               /\ UNCHANGED disp
    /\ UNCHANGED <<exc, args, fs, tmpdir, cwd, log, exit, locals, counters>>

\* variant: __exit__ reinstalls the bridge handler whatever was recorded
RestoredBridge(f, s) == on_signal_raise

\* line 46: the handler __exit__ reinstalls for signal s: the recorded one
Restored(f, s) == f.prev[s]

\* lines 44-46: SignalMask.__exit__, one signal.signal call per step, in the
\* iteration order of the dict prev_handlers (unspecified)
SignalMask_exit ==
    /\ pc = "L45"
    /\ LET todo == cur.todo
       IN IF todo # {}
          THEN \E s \in todo :
                  /\ disp' = [disp EXCEPT ![s] = Restored(cur, s)]
                  /\ cur' = [cur EXCEPT !.todo = todo \ {s}]
                  /\ UNCHANGED pc
          ELSE /\ cur' = NoFrame
               /\ pc' = After(cur)
               /\ UNCHANGED disp
    /\ UNCHANGED <<stack, exc, args, fs, tmpdir, cwd, log, exit, locals,
                   counters>>

\* the end of a with/try block is reached, or an exception unwinds into it:
\* the block is closed and its __exit__ / finally code entered
Leave ==
    /\ pc = "leave"
    /\ stack # << >>
    /\ CASE Top.kind = "mask" ->
              /\ cur' = [Top EXCEPT !.todo = Signals]
              /\ stack' = Pop /\ pc' = "L45" /\ UNCHANGED exc
         [] Top.kind = "tempdir" ->
              /\ cur' = Top /\ stack' = Pop /\ pc' = "L60" /\ UNCHANGED exc
         [] Top.kind = "chdir" ->
              /\ cur' = Top /\ stack' = Pop /\ pc' = "L74" /\ UNCHANGED exc
         [] Top.kind = "try" ->
              \* line 180: the finally block runs, the exception is held
              /\ stack' = [stack EXCEPT ![Len(stack)] =
                              [Top EXCEPT !.kind = "finally", !.saved = exc]]
              /\ exc' = "none"
              /\ pc' = "L181"
              /\ UNCHANGED cur
         [] Top.kind = "finally" ->
              \* an exception raised inside the finally block replaces the
              \* held one
              /\ stack' = Pop /\ pc' = "leave" /\ UNCHANGED <<cur, exc>>
    /\ UNCHANGED <<world, locals, counters>>

\* line 201-202: the module level is left; an uncaught exception gives exit
\* status 1
Terminate ==
    /\ pc = "leave"
    /\ stack = << >>
    /\ exit' = IF exc = "none" THEN "0" ELSE "1"
    /\ pc' = "done"
    /\ UNCHANGED <<stack, cur, exc, disp, args, fs, tmpdir, cwd, log, locals,
                   counters>>

\* a command is spawned at line `line` and the thread blocks in its wait
Invoke(here, wait, cmd, line) ==
    /\ pc = here
    /\ log' = Append(log, [Event("call", cmd, line, 0) EXCEPT
                               !.argv = Argv(line, args.cycles)])
    /\ Goto(wait)
    /\ UNCHANGED <<disp, args, fs, tmpdir, cwd, exit, locals, counters>>

\* subprocess.check_call returns at line `line`: status 0 continues at
\* `next`, any other raises
Returns(wait, cmd, line, next) ==
    /\ pc = wait
    /\ \E rc \in ExitStatuses :
          /\ log' = Append(log, Event("ret", cmd, line, rc))
          /\ IF check_call(rc) = "none" THEN Goto(next)
                                        ELSE Raise(check_call(rc))
    /\ UNCHANGED <<disp, args, fs, tmpdir, cwd, exit, locals, counters>>

-----------------------------------------------------------------------------
(* __main__ and main *)

\* line 201: with SignalMask(on_signal_raise, term_signals)
Bridge ==
    /\ pc = "L201"
    /\ BeginMask(201, on_signal_raise, "L106", "leave")
    /\ UNCHANGED <<world, locals, counters>>

\* lines 91-92, 106-112: main: parse_args applies cycle_list_type to the
\* --cycles value, or takes the default list; then the whole-run mask if
\* asked for
main ==
    /\ pc = "L106"
    /\ args' = [args EXCEPT !.cycles = IF args.c = NoOption
                                        THEN DefaultCycles
                                        ELSE cycle_list_type(args.c)]
    /\ IF args.no_interruptions
       THEN BeginMask(109, NoIntHandler, "L117", "leave")
       ELSE Goto("L117")
    /\ UNCHANGED <<disp, fs, tmpdir, cwd, log, exit, locals, counters>>

-----------------------------------------------------------------------------
(* do_backup *)

\* lines 117-119: the optional fsck, under its guard
FsckGuard ==
    /\ pc = "L117"
    /\ IF args.fsck THEN BeginMask(119, GuardHandler, "L120", "L123")
                    ELSE Goto("L123")
    /\ UNCHANGED <<world, locals, counters>>

\* line 120
FsckCall == Invoke("L120", "L120w", "fsck.s3ql", 120)

FsckReturn == Returns("L120w", "fsck.s3ql", 120, "leave")

\* lines 123, 54-56: TempDir.__enter__ creates the mount point
TempDir_enter ==
    /\ \/ /\ pc = "L123"
          /\ tmpdir' = "exists"
          /\ cur' = Frame("tempdir", 123, "leave")
          /\ pc' = "L56"
          /\ UNCHANGED stack
       \/ \* line 56: __enter__ returns and the with-block is open
          /\ pc = "L56"
          /\ stack' = Push(cur)
          /\ cur' = NoFrame
          /\ pc' = "L124"
          /\ UNCHANGED tmpdir
    /\ UNCHANGED <<exc, disp, args, fs, cwd, log, exit, locals, counters>>

\* lines 124-125: mounted = False; try:
Try ==
    /\ pc = "L124"
    /\ mounted' = FALSE
    /\ stack' = Push(Frame("try", 125, "leave"))
    /\ pc' = "L127"
    /\ UNCHANGED <<cur, exc, world, rval, i, last_backup, new_backup, counters>>

\* line 127: the mount guard
MountGuard ==
    /\ pc = "L127"
    /\ BeginMask(127, GuardHandler, "L132", "L136")
    /\ UNCHANGED <<world, locals, counters>>

\* line 132
MountCall == Invoke("L132", "L132w", "mount.s3ql", 132)

MountReturn == Returns("L132w", "mount.s3ql", 132, "L133")

\* variant: the flag keeps the value it has
MountedKept(m) == m

\* line 133: the value `mounted = True` gives the flag
MountedSet(m) == TRUE

\* line 133: mounted = True, then the guard is left
SetMounted ==
    /\ pc = "L133"
    /\ mounted' = MountedSet(mounted)
    /\ Goto("leave")
    /\ UNCHANGED <<world, rval, i, last_backup, new_backup, counters>>

\* lines 136-139: the most recent backup and the name of the new one
Discover ==
    /\ pc = "L136"
    /\ last_backup' = LastBackup(fs)
    /\ new_backup' \in Clock
    /\ Goto("L142")
    /\ UNCHANGED <<world, mounted, rval, i, counters>>

\* lines 142-146: the full paths; `if last_backup:`
JoinPaths ==
    /\ pc = "L142"
    /\ IF PathJoinRaises(last_backup) # "none"
       THEN Raise(PathJoinRaises(last_backup))
       ELSE Goto(IF last_backup # None THEN "L151" ELSE "L166")
    /\ UNCHANGED <<world, locals, counters>>

\* line 151
CopyCall == Invoke("L151", "L151w", "s3qlcp", 151)

CopyReturn == Returns("L151w", "s3qlcp", 151, "L155")

\* line 155
LockPriorCall == Invoke("L155", "L155w", "s3qllock", 155)

LockPriorReturn == Returns("L155w", "s3qllock", 155, "L166")

\* line 166
SyncCall == Invoke("L166", "L166w", "rsync", 166)

SyncReturn == Returns("L166w", "rsync", 166, "L169")

\* line 169
LockNewCall == Invoke("L169", "L169w", "s3qllock", 169)

LockNewReturn == Returns("L169w", "s3qllock", 169, "L172")

\* lines 172, 69-71: ChDir.__enter__
ChDir_enter ==
    /\ \/ /\ pc = "L172"
          /\ cwd' = "mountpoint"
          /\ cur' = [Frame("chdir", 172, "L178") EXCEPT !.saved = cwd]
          /\ pc' = "L71"
          /\ UNCHANGED stack
       \/ \* __enter__ returns and the with-block is open
          /\ pc = "L71"
          /\ stack' = Push(cur)
          /\ cur' = NoFrame
          /\ pc' = "L176"
          /\ UNCHANGED cwd
    /\ UNCHANGED <<exc, disp, args, fs, tmpdir, log, exit, locals, counters>>

\* line 176
ExpireCall == Invoke("L176", "L176w", "s3ql-expire_backups", 176)

ExpireReturn == Returns("L176w", "s3ql-expire_backups", 176, "leave")

\* lines 73-74: ChDir.__exit__
ChDir_exit ==
    /\ pc = "L74"
    /\ cwd' = cur.saved
    /\ cur' = NoFrame
    /\ pc' = After(cur)
    /\ UNCHANGED <<stack, exc, disp, args, fs, tmpdir, log, exit, locals,
                   counters>>

\* line 178: the try body ends
Completed ==
    /\ pc = "L178"
    /\ Goto("leave")
    /\ UNCHANGED <<world, locals, counters>>

\* variant: cleanup that unmounts whether or not the mount succeeded
ShouldUnmountAlways(m) == TRUE

\* line 181: if mounted:
ShouldUnmount(m) == m

\* lines 181-183: finally: if mounted: the unmount guard
Finally ==
    /\ pc = "L181"
    /\ IF ShouldUnmount(mounted) THEN BeginMask(183, GuardHandler, "L184", "L197")
                  ELSE Goto("L197")
    /\ UNCHANGED <<world, locals, counters>>

\* variant: one iteration more than asked for
LoopContinuesOnceMore(n, max) == n <= max

\* line 184: xrange(max) yields another value after n values
LoopContinues(n, max) == n < max

\* line 184: for i in xrange(args.maxtries)
LoopHead ==
    /\ pc = "L184"
    /\ IF LoopContinues(i, args.maxtries) THEN i' = i + 1 /\ Goto("L185")
                            ELSE i' = i /\ Goto("L195")
    /\ UNCHANGED <<world, mounted, rval, last_backup, new_backup, counters>>

\* variant: every non-zero status is retried
RetryNonZero(rc) == rc # 0

\* line 187: 4 == rval
Retry(rc) == Busy = rc

\* line 185
UmountCall == Invoke("L185", "L185w", "umount.s3ql", 185)

\* lines 185-193: subprocess.call returns the status; busy sleeps and
\* retries, anything else breaks out of the loop
UmountReturn ==
    /\ pc = "L185w"
    /\ \E rc \in UmountStatuses :
          /\ log' = Append(log, Event("ret", "umount.s3ql", 185, rc))
          /\ rval' = <<rc>>
          /\ Goto(IF Retry(rc) THEN "L190" ELSE "L195")
    /\ UNCHANGED <<disp, args, fs, tmpdir, cwd, exit, mounted, i,
                   last_backup, new_backup, counters>>

\* line 190: time.sleep(1)
Sleep ==
    /\ pc = "L190"
    /\ log' = Append(log, Event("sleep", "time.sleep", 190, 0))
    /\ Goto("L184")
    /\ UNCHANGED <<disp, args, fs, tmpdir, cwd, exit, locals, counters>>

\* variant: the final status is not looked at
UnmountVerdictNone(v) == "none"

\* variant: a loop that never ran counts as a clean unmount
UnmountVerdictUnbound(v) ==
    IF v = << >> THEN "none"
    ELSE IF v[1] # 0 THEN "IOError"
    ELSE "none"

\* what lines 195-196 raise: nothing on status 0, UnboundLocalError when
\* the loop body never ran
UnmountVerdict(v) ==
    IF v = << >> THEN "UnboundLocalError"
    ELSE IF v[1] # 0 THEN "IOError"
    ELSE "none"

\* lines 195-196: if rval: raise IOError('Unmounting failed.')
CheckRval ==
    /\ pc = "L195"
    /\ IF UnmountVerdict(rval) # "none" THEN Raise(UnmountVerdict(rval))
                                        ELSE Goto("leave")
    /\ UNCHANGED <<world, locals, counters>>

\* end of the finally block: the held exception, if any, propagates again
EndFinally ==
    /\ pc = "L197"
    /\ exc' = Top.saved
    /\ stack' = Pop
    /\ pc' = "leave"
    /\ UNCHANGED <<cur, world, locals, counters>>

\* the file system is mounted on the mount point
FsMounted ==
    /\ \E k \in DOMAIN log :
          log[k].ev = "ret" /\ log[k].line = 132 /\ log[k].rc = 0
    /\ ~ \E k \in DOMAIN log :
          log[k].ev = "ret" /\ log[k].line = 185 /\ log[k].rc = 0

\* lines 58-62: TempDir.__exit__: os.rmdir, OSError swallowed; a mount point
\* in use cannot be removed
TempDir_exit ==
    /\ pc = "L60"
    /\ \E ok \in BOOLEAN :
          /\ ok => ~FsMounted
          /\ log' = Append(log, Event("rmdir", "os.rmdir", 60,
                                      IF ok THEN 0 ELSE 1))
          /\ tmpdir' = IF ok THEN "removed" ELSE tmpdir
    /\ cur' = NoFrame
    /\ pc' = After(cur)
    /\ UNCHANGED <<stack, exc, disp, args, fs, cwd, exit, locals, counters>>

-----------------------------------------------------------------------------
(* Signals *)

\* what the handler installed for a signal does when the signal arrives
Handle(h) ==
    CASE h = "SIG_IGN" -> "drop"
      [] h = "SIG_DFL" -> "kill"
      [] h = "on_signal_raise" -> "SignalException"
      [] h = "default_int_handler" -> "KeyboardInterrupt"

\* the environment sends signal s to the process
Deliver(s) ==
    /\ exit = "none"
    /\ Len(ctx) < MaxSignals
    /\ ctx' = Append(ctx, Context)
    /\ LET h == Handle(disp[s])
       IN CASE h = "drop" ->
                 UNCHANGED progVars
            [] h = "kill" ->
                 /\ exit' = "signal"
                 /\ pc' = "done"
                 /\ UNCHANGED <<stack, cur, exc, disp, args, fs, tmpdir, cwd,
                                log, locals, nraised>>
            [] OTHER ->
                 /\ Raise(h)
                 /\ nraised' = nraised + 1
                 /\ UNCHANGED <<world, locals>>

Signal == \E s \in Signals : Deliver(s)

-----------------------------------------------------------------------------

\* a step of the control thread
Program ==
    \/ Bridge \/ main \/ SignalMask_enter \/ SignalMask_exit \/ Leave
    \/ Terminate
    \/ FsckGuard \/ FsckCall \/ FsckReturn
    \/ TempDir_enter \/ Try \/ MountGuard \/ MountCall \/ MountReturn
    \/ SetMounted \/ Discover \/ JoinPaths
    \/ CopyCall \/ CopyReturn \/ LockPriorCall \/ LockPriorReturn
    \/ SyncCall \/ SyncReturn \/ LockNewCall \/ LockNewReturn
    \/ ChDir_enter \/ ExpireCall \/ ExpireReturn \/ ChDir_exit \/ Completed
    \/ Finally \/ LoopHead \/ UmountCall \/ UmountReturn \/ Sleep
    \/ CheckRval \/ EndFinally \/ TempDir_exit

Next == Program \/ Signal

Spec == Init /\ [][Next]_vars

\* signal-free runs over more command lines and mount roots: a --cycles
\* value with the usual mount root, or any mount root with the default cycles
InitQuiet ==
    /\ pc = "L201"
    /\ stack = << >>
    /\ cur = NoFrame
    /\ exc = "none"
    /\ disp = StartDisp
    /\ args \in QuietArgs
    /\ fs \in NameSets
    /\ args.c = NoOption \/ fs = {Stamp("1")}
    /\ mounted = FALSE
    /\ tmpdir = "none"
    /\ cwd = "orig"
    /\ rval = << >>
    /\ i = 0
    /\ last_backup = None
    /\ new_backup = None
    /\ log = << >>
    /\ exit = "none"
    /\ ctx = << >>
    /\ nraised = 0

Quiet == InitQuiet /\ [][Program]_vars

\* the control thread keeps running: the interpreter executes the next
\* statement, every spawned command terminates and time.sleep returns
Fair == Spec /\ WF_vars(Program)

-----------------------------------------------------------------------------
(* Vocabulary of the properties *)

\* the process has terminated
Terminated == exit # "none"

\* mount.s3ql returned exit status 0
MountOK == Statuses(132) = <<0>>

\* mount.s3ql returned a non-zero exit status
MountFailed == Statuses(132) # << >> /\ Statuses(132)[1] # 0

\* line 136-139 has run
Discovered == new_backup # None

\* the unmount loop is not running
OutsideLoop == pc \notin {"L184", "L185", "L185w", "L190"}

\* every command that was invoked has returned
AllReturned == \A k \in DOMAIN log :
    log[k].ev = "call" => Count("call", log[k].line) = Count("ret", log[k].line)

-----------------------------------------------------------------------------
(* C1 *)

\* a must-succeed command after the mount (lines 151-176) returned non-zero
LaterStepFailed ==
    \E k \in DOMAIN log :
        /\ log[k].ev = "ret"
        /\ log[k].line \in {151, 155, 166, 169, 176}
        /\ log[k].rc # 0

\* C1: in every run in which mount.s3ql returned 0 and a later must-succeed
\* step failed, at least one umount.s3ql invocation has happened by the time
\* the run terminates (stated for maxtries >= 1)
C1_UnmountAfterMount ==
    (Terminated /\ MountOK /\ LaterStepFailed /\ args.maxtries >= 1)
        => Called(185)

-----------------------------------------------------------------------------
(* C2 *)

\* C2: in default mode a run that a termination signal aborted with
\* SignalException after the mount succeeded has still invoked umount.s3ql
\* before the process terminates with status 1
C2_InterruptStillUnmounts ==
    (/\ exit = "1"
     /\ ~args.no_interruptions
     /\ args.maxtries >= 1
     /\ MountOK
     /\ exc = "SignalException") => Count("call", 185) >= 1

-----------------------------------------------------------------------------
(* C3 *)

-----------------------------------------------------------------------------
(* C4 *)

\* C4: once the unmount loop has run (maxtries >= 1), the attempts number
\* min(maxtries, index of the first status that is not busy): every status
\* but the last is busy, and the last is busy only at the maxtries-th
\* attempt; line 195 raises IOError exactly when the last status is non-zero
C4_UnmountAttempts ==
    LET st == Statuses(185)
        n == Len(st)
    IN (args.maxtries >= 1 /\ Called(185) /\ OutsideLoop) =>
          /\ Count("call", 185) = n
          /\ 1 <= n /\ n <= args.maxtries
          /\ \A k \in 1..(n - 1) : st[k] = Busy
          /\ n < args.maxtries => st[n] # Busy
          /\ (pc = "leave" /\ OnStack({183})) =>
                 (exc = "IOError" <=> st[n] # 0) /\ exc \in {"none", "IOError"}

\* [busy, busy, 0]: three attempts, and the run ends in success
C4_Witness ==
    /\ Terminated
    /\ exit = "0"
    /\ Statuses(185) = <<Busy, Busy, 0>>

-----------------------------------------------------------------------------
(* C5 *)

\* C5: when the mount root holds no matching entry, the run goes on to
\* Synchronize: a run in which no signal handler raised and Discover found
\* no prior backup has invoked rsync by the time it terminates
C5_FirstBackupSynchronizes ==
    (/\ Terminated
     /\ Discovered
     /\ last_backup = None
     /\ nraised = 0) => Called(166)

-----------------------------------------------------------------------------
(* C6 *)

\* C6: in default mode a signal that arrives while a phase guard is active
\* changes nothing: no exception, no change of control flow, of the
\* dispositions or of the commands run
C6_GuardDropsSignals ==
    [][(~args.no_interruptions /\ PhaseGuardActive /\ ctx' # ctx)
          => UNCHANGED progVars]_vars

\* a run that received a signal inside a guarded phase and ended in success
C6_Witness ==
    /\ ~args.no_interruptions
    /\ gsig > 0
    /\ exit = "0"

-----------------------------------------------------------------------------
(* C7 *)

\* C7 as stated: in default mode a signal that arrived during a guarded
\* phase is redelivered as a failure after the guard exits, so a run whose
\* signals all arrived in guarded phases has raised SignalException by its end
C7_Original ==
    (~args.no_interruptions /\ Terminated /\ gsig > 0 /\ gsig = nsig)
        => nraised > 0

\* C7 amended: in default mode a signal that arrives during a guarded phase
\* is discarded, not deferred: as long as all signals of the run arrived in
\* guarded phases, no handler has raised and no SignalException propagates
C7_DroppedNotDeferred ==
    (~args.no_interruptions /\ gsig = nsig)
        => nraised = 0 /\ exc # "SignalException"

\* the mount guard (or the fsck guard before it) swallowed a signal and the
\* run is at Discover, nothing raised
C7_Witness ==
    /\ ~args.no_interruptions
    /\ gsig > 0
    /\ gsig = nsig
    /\ pc = "L136"
    /\ exc = "none"

-----------------------------------------------------------------------------
(* C8 *)

\* C8: while the whole-run mask of --no-interruptions is active, a signal
\* changes nothing, inside the phases and between them
C8_NoInterruptions ==
    [][(NoIntActive /\ ctx' # ctx) => UNCHANGED progVars]_vars

\* under --no-interruptions a signal arrived between two phases (no phase
\* guard active) and the run is waiting for rsync
C8_Witness ==
    /\ args.no_interruptions
    /\ Arrived("whole") > 0
    /\ pc = "L166w"

-----------------------------------------------------------------------------
(* C9 *)

\* C9: exit status 0 only if fsck (when enabled), mount, every command
\* invoked and the last unmount attempt returned zero and no signal handler
\* raised; in particular a run in which line 196 raised IOError ends non-zero
C9_SuccessOnlyIfAllZero ==
    exit = "0" =>
        /\ args.fsck => Statuses(120) = <<0>>
        /\ MountOK
        /\ AllReturned
        /\ \A k \in DOMAIN log :
              (log[k].ev = "ret" /\ log[k].line # 185) => log[k].rc = 0
        /\ Statuses(185) # << >>
        /\ Statuses(185)[Len(Statuses(185))] = 0
        /\ nraised = 0
        /\ exc = "none"

\* a run with fsck that ended with exit status 0 after a busy unmount
C9_Witness ==
    /\ exit = "0"
    /\ args.fsck
    /\ Statuses(185) = <<Busy, 0>>

-----------------------------------------------------------------------------
(* C10 *)

\* C10: when fsck.s3ql returns non-zero no other command is invoked, no
\* mount point is created and the run ends Failed; with --no-fsck fsck.s3ql
\* is never invoked and the first command is mount.s3ql
C10_FsckFailureAborts ==
    /\ (Statuses(120) # << >> /\ Statuses(120)[1] # 0) =>
          /\ Calls = <<"fsck.s3ql">>
          /\ tmpdir = "none"
          /\ Count("rmdir", 60) = 0
          /\ Terminated => exit # "0"
    /\ ~args.fsck =>
          /\ ~Called(120)
          /\ Calls # << >> => Calls[1] = "mount.s3ql"

\* a run whose fsck failed and that ended with exit status 1
C10_Witness ==
    /\ Terminated
    /\ args.fsck
    /\ Statuses(120) = <<1>>
    /\ exit = "1"

-----------------------------------------------------------------------------
(* C11 *)

\* the backup-name shape: ten characters of digits and dashes, an
\* underscore, eight characters of digits and colons, and nothing else
HasShape(x) ==
    /\ Len(x) = 19
    /\ \A k \in 1..10 : x[k] \in Digits \cup {"-"}
    /\ x[11] = "_"
    /\ \A k \in 12..19 : x[k] \in Digits \cup {":"}

\* C11: once discovery has run, the prior backup it selected is the
\* lexically greatest entry of the mount root among those of the backup-name
\* shape, and none when no entry has that shape
C11_DiscoverSelectsGreatestShaped ==
    Discovered =>
        LET shaped == {x \in fs : HasShape(x)}
        IN IF shaped = {}
           THEN last_backup = None
           ELSE /\ last_backup \in shaped
                /\ \A y \in shaped \ {last_backup} : StrLess(y, last_backup)

-----------------------------------------------------------------------------
(* C12 *)

\* the integers typed in the --cycles value
Typed == {IntOf(Split(args.c)[k]) : k \in DOMAIN Split(args.c)}

\* C12: for every comma-separated list of integers given to --cycles, the
\* parsed list is strictly ascending and holds exactly the distinct values
\* typed; and every invocation of the expiry tool carries, after its flag,
\* exactly the parsed list in its order as positional arguments
C12_CyclesAscendingDistinct ==
    /\ (args.c # NoOption /\ args.cycles # << >>) =>
           /\ \A j, k \in DOMAIN args.cycles :
                  j < k => args.cycles[j] < args.cycles[k]
           /\ {args.cycles[k] : k \in DOMAIN args.cycles} = Typed
    /\ \A e \in Logged("call", 176) :
           /\ Len(log[e].argv) = 1 + Len(args.cycles)
           /\ log[e].argv[1] = <<"--use-s3qlrm">>
           /\ \A k \in DOMAIN args.cycles :
                  IntOf(log[e].argv[k + 1]) = args.cycles[k]

\* "7,31,07" was parsed to [7, 31] and the expiry tool was invoked with it
C12_Witness ==
    /\ args.c = <<"7", ",", "3", "1", ",", "0", "7">>
    /\ args.cycles = <<7, 31>>
    /\ \E e \in Logged("call", 176) :
           log[e].argv = <<<<"--use-s3qlrm">>, <<"7">>, <<"3", "1">>>>

-----------------------------------------------------------------------------
(* C13 *)

\* C13: every unmount attempt and every termination happens with the working
\* directory restored to the one recorded before the expiry step, outside
\* the mount point
C13_CwdRestoredAfterExpire ==
    (Terminated \/ pc \in {"L185", "L185w"}) => cwd = "orig"

-----------------------------------------------------------------------------
(* C14 *)

\* the log positions at which a command was invoked
CallAt == {k \in DOMAIN log : log[k].ev = "call"}

\* the place of a command in the prescribed order, by the line spawning it
Rank(line) ==
    CASE line = 120 -> 1
      [] line = 132 -> 2
      [] line = 151 -> 3
      [] line = 155 -> 4
      [] line = 166 -> 5
      [] line = 169 -> 6
      [] line = 176 -> 7
      [] line = 185 -> 8

\* commands are invoked in the prescribed order without going back, each
\* but umount.s3ql at most once, the two prior-backup commands only when a
\* prior backup was found
InOrder ==
    /\ \A j, k \in CallAt :
           j < k => \/ Rank(log[j].line) < Rank(log[k].line)
                    \/ log[j].line = 185 /\ log[k].line = 185
    /\ \A k \in CallAt : log[k].line \in {151, 155} => last_backup # None

\* a command is invoked only when every command invoked before has returned
NoOverlap ==
    \A j, k \in CallAt :
        j < k => \E r \in (j + 1)..(k - 1) :
                     log[r].ev = "ret" /\ log[r].line = log[j].line

\* a must-succeed command is invoked only after every earlier command
\* returned zero
AfterSuccess ==
    \A k \in CallAt :
        log[k].line # 185 =>
            \A j \in 1..(k - 1) :
                /\ log[j].ev = "ret" => log[j].rc = 0
                /\ log[j].ev = "call" =>
                       \E r \in (j + 1)..(k - 1) :
                           log[r].ev = "ret" /\ log[r].line = log[j].line

\* C14: the commands are invoked in the one prescribed order with no
\* branching back and no overlap, and every must-succeed command only after
\* all earlier commands returned zero (so the new backup is locked only
\* after the synchronization succeeded, expiry runs only after that lock,
\* and the mount is invoked at most once)
C14_ForcedOrderNoOverlap == InOrder /\ NoOverlap /\ AfterSuccess

-----------------------------------------------------------------------------
(* C15 *)

\* C15: whenever the exit of a SignalMask scope is over, normally or with an
\* exception, and the process lives on, every covered signal has the
\* disposition it had when the scope was entered
C15_GuardsRestoreDispositions ==
    [][(pc = "L45" /\ pc' # "L45" /\ exit' # "signal") =>
           \A s \in Signals : disp'[s] = cur.prev[s]]_vars

-----------------------------------------------------------------------------
(* C16 *)

\* control is in the mount guard: from its installation at line 127 until
\* its body is left
InMountGuard ==
    \/ OnStack({127})
    \/ pc = "L41" /\ cur.line = 127

\* C16: the flag `mounted` is true only if mount.s3ql returned 0, it is true
\* in every state in which mount.s3ql returned 0 and control has left the
\* body of the mount guard, and once true it is never reset
C16_MountedIsCleanupPredicate ==
    /\ [](mounted => MountOK)
    /\ []((MountOK /\ ~InMountGuard) => mounted)
    /\ [][mounted => mounted']_vars

\* a run interrupted after the mount guard was left ends with the flag set
C16_Witness ==
    /\ Terminated
    /\ MountOK
    /\ mounted
    /\ nraised > 0
    /\ ~Called(185)

-----------------------------------------------------------------------------
(* C17 *)

\* the temporary directory was created (line 55)
Created == tmpdir # "none"

\* removal is attempted exactly once on every exit path after creation
RemovalOnce ==
    (Terminated /\ exit # "signal" /\ Created) => Count("rmdir", 60) = 1

\* removal is attempted on a mounted file system only after an unmount attempt
RemovalAfterUnmount ==
    (Count("rmdir", 60) > 0 /\ MountOK /\ args.maxtries >= 1) => Called(185)

\* C17: once the run has terminated after creating the temporary directory,
\* its removal has been attempted exactly once; and removal is attempted
\* only after the unmount loop has run whenever the mount succeeded, never
\* on a mounted file system for which no unmount attempt was made (stated
\* for maxtries >= 1)
C17_RemovalOnceAfterUnmount == RemovalOnce /\ RemovalAfterUnmount

-----------------------------------------------------------------------------
(* C18 *)

\* the unmount loop has run and is over
LoopOver == OutsideLoop /\ Called(185)

IsEvent(k, ev, line) ==
    k \in DOMAIN log /\ log[k].ev = ev /\ log[k].line = line

\* every busy status is followed by a sleep, no other status is
SleepFollowsBusy ==
    \A k \in Logged("ret", 185) :
        IsEvent(k + 1, "sleep", 190) <=> log[k].rc = Busy

\* every sleep lies between two consecutive attempts
SleepBetweenAttempts ==
    \A k \in Logged("sleep", 190) :
        IsEvent(k - 1, "ret", 185) /\ IsEvent(k + 1, "call", 185)

\* n attempts whose statuses were busy up to the last one: n - 1 sleeps
OneSleepFewer ==
    LET st == Statuses(185)
    IN (\A k \in 1..(Len(st) - 1) : st[k] = Busy) =>
           Count("sleep", 190) = Len(st) - 1

\* C18: when the unmount loop is over, every busy status was followed by
\* exactly one sleep and then another attempt, sleeps occurred only between
\* two consecutive attempts (n attempts with all but the last busy: n - 1
\* sleeps), and no sleep followed a zero or other non-zero status
C18_SleepsOnlyBetweenAttempts ==
    LoopOver => SleepFollowsBusy /\ SleepBetweenAttempts /\ OneSleepFewer

-----------------------------------------------------------------------------
(* C20 *)

\* C20: with maxtries <= 0, umount.s3ql is never invoked, a file system that
\* was mounted stays mounted, the check after the empty loop always raises,
\* and a run whose mount succeeded never ends in Success
C20_NoTriesNoUnmount ==
    /\ [](args.maxtries <= 0 =>
              /\ ~Called(185)
              /\ MountOK => FsMounted
              /\ (Terminated /\ MountOK) => exit # "0")
    /\ [][(args.maxtries <= 0 /\ pc = "L195" /\ pc' # "L195") =>
              exc' # "none"]_vars

\* an undisturbed run with maxtries <= 0 whose commands all returned 0 ended
\* Failed on the check after the empty loop
C20_Witness ==
    /\ args.maxtries <= 0
    /\ Terminated
    /\ Statuses(176) = <<0>>
    /\ nraised = 0
    /\ exit = "1"
    /\ exc = "UnboundLocalError"
    /\ FsMounted

-----------------------------------------------------------------------------
(* C19 *)

\* the number of unmount attempts and of sleeps the loop may make
Tries == IF args.maxtries > 0 THEN args.maxtries ELSE 0

\* every command but umount.s3ql is invoked at most once, umount.s3ql and
\* the sleep at most maxtries times
PhasesBounded ==
    /\ \A line \in {120, 132, 151, 155, 166, 169, 176} :
           Count("call", line) <= 1
    /\ Count("call", 185) <= Tries
    /\ Count("sleep", 190) <= Tries

\* C19: provided every external command terminates, every run eventually
\* terminates; each phase is executed at most once, and the unmount loop
\* makes at most maxtries invocations and at most maxtries sleeps
C19_Terminates == []PhasesBounded /\ <>Terminated

\* a run that used up all its unmount attempts and sleeps has terminated
C19_Witness ==
    /\ Terminated
    /\ args.maxtries = MaxTries
    /\ Count("call", 185) = MaxTries
    /\ Count("sleep", 190) = MaxTries
    /\ Called(120)
    /\ Called(176)

====
